---- MODULE Spec2Model ----
(***************************************************************************)
(* DecoderRNN (src/model/LSTMDecoderLM.py): the control flow of forward,   *)
(* its argument validation, the per-step length bookkeeping of decode, the *)
(* logit overwrite of forward_step and the beam top-k selection.           *)
(*                                                                         *)
(* Tensors are modelled by what the control flow reads of them: their      *)
(* batch and length dimensions, where they come from, and, for a step      *)
(* output, the token that topk(1) picks in every batch row.  The network   *)
(* weights are unknown, so the token a row picks is any token.             *)
(***************************************************************************)
EXTENDS Integers, Sequences, FiniteSets, TLC

\* ---------------------------------------------------------------- bounds
MaxBatch == 2
MaxLen == 2
VocabSize == 2
MaxTopk == 2
MaxScore == 2

\* ------------------------------------------------------------- constants
\* Token ids handed to the constructor (sos_id, eos_id).
sos_id == 0
eos_id == 1
\* The value scatter_ writes over the logits of already chosen tokens
\* (1e-18).  Logits are counted in units of that value.
OverwriteValue == 1

Vocab == 0..(VocabSize - 1)
Batches == 1..MaxBatch
\* Probabilities and random draws in hundredths.
Ratios == {0, 50, 100}
Draws == {0, 50}
\* Computed logits: one value below and one above the overwrite value.
LogitVals == {0, 2}

\* ------------------------------------------------------- optional values
NoTensor == [isNone |-> TRUE, B |-> 0, L |-> 0, kind |-> "None"]
GivenInputs == {[isNone |-> FALSE, B |-> b, L |-> l, kind |-> "given"] :
                  b \in Batches, l \in 2..(MaxLen + 1)}
\* A recurrent state: its batch dimension and the number of forward_step
\* calls of the current call it went through (0 for the encoder's state).
NoHidden == [isNone |-> TRUE, B |-> 0, step |-> 0]
Hiddens == {[isNone |-> FALSE, B |-> b, step |-> 0] : b \in Batches}
\* The hidden argument of a forward_step call: the state, and where its two
\* halves (h, c) were taken from.
NoStepHidden == [state |-> NoHidden, h |-> "None", c |-> "None"]
\* What getTopkIndsnScores selected at the latest beam step, as far as a
\* later step could read it: the number of hypotheses selected and the
\* last token bmTopkInds_nxt[-1][:, 1] of the hypothesis selected last.
NoSelection == [isNone |-> TRUE, n |-> 0, tokens |-> << >>]
NoContext == [isNone |-> TRUE]
Context == [isNone |-> FALSE]
NoBeam == [isNone |-> TRUE, B |-> 0]
BeamSeeds == {[isNone |-> FALSE, B |-> b] : b \in Batches}
NoArgs == [present |-> FALSE, inputs |-> NoTensor, encoder_hidden |-> NoHidden,
           teacher_forcing_ratio |-> 0, max_len |-> 0, rand |-> 0]
NoHistory == [isNone |-> TRUE, val |-> << >>]
NoInput == [kind |-> "None", B |-> 0, W |-> 0, val |-> << >>]
NoOutput == [B |-> 0, W |-> 0, attn |-> FALSE]
NoTrace == [probVec |-> << >>, hiddens |-> << >>, cells |-> << >>]
\* The entries of the beam trace: the empty list probVec starts with, a
\* clone of the caller's beamStates['cells'][0], and what beam step di
\* stacked from the hypotheses it expanded.
EmptyEntry == [src |-> "[]", step |-> 0, rows |-> 0]
SeedCells == [src |-> "beamStates.cells[0]", step |-> 0, rows |-> 0]
Stacked(step, rows) == [src |-> "stack", step |-> step, rows |-> rows]
NoDict == [returned |-> FALSE, sequence |-> << >>, length |-> << >>,
           beamStates |-> NoTrace]

VARIABLES
  self,                \* the instance: the fields __init__ sets
  pc,                  \* where the current forward call is
  err,                 \* the exception a call ended with ("" if none)
  args,                \* the call's arguments, while the entry code reads them
  beamStates,          \* the caller's beam state bundle (argument)
  encoder_outputs,     \* the encoder context (argument)
  inputs,              \* the input sequence after _validate_args
  batch_size,
  max_length,
  use_teacher_forcing,
  decoder_hidden,
  decoder_input,
  decoder_outputs,
  sequence_symbols,
  lengths,
  attention_score,     \* ret_dict[KEY_ATTN_SCORE]
  beamStatesLM,
  di,
  step_calls,          \* forward_step calls made by the current call
  step_input,          \* input_var of the latest forward_step call
  step_prev,           \* prev_maxes of the latest forward_step call
  step_hidden,         \* hidden of the latest forward_step call
  bmSelected,          \* bmTopkInds_nxt, bmScores_nxt of the latest beam step
  decoder_output,      \* what the latest forward_step call returned
  ret_dict,
  candScores,          \* getTopkIndsnScores alone: its argument
  bmTopkInds_nxt,      \* getTopkIndsnScores alone: the indices it returns
  bmScores_nxt,        \* getTopkIndsnScores alone: the scores it returns
  logits,              \* forward_step alone: the logits before normalisation
  computed,            \* forward_step alone: the logits self.out produced
  prev_maxes,          \* forward_step alone: the history argument
  output_size          \* forward_step alone: input_var.size(1)

vars == <<self, pc, err, args, beamStates, encoder_outputs, inputs, batch_size,
          max_length, use_teacher_forcing, decoder_hidden, decoder_input,
          decoder_outputs, sequence_symbols, lengths, attention_score,
          beamStatesLM, di, step_calls, step_input, step_prev, step_hidden,
          bmSelected, decoder_output, ret_dict, candScores, bmTopkInds_nxt, bmScores_nxt, logits, computed,
          prev_maxes, output_size>>

callVars == <<self, pc, err, args, beamStates, encoder_outputs, inputs,
              batch_size, max_length, use_teacher_forcing, decoder_hidden,
              decoder_input, decoder_outputs, sequence_symbols, lengths,
              attention_score, beamStatesLM, di, step_calls, step_input,
              step_prev, step_hidden, bmSelected, decoder_output, ret_dict>>
topkVars == <<candScores, bmTopkInds_nxt, bmScores_nxt>>
stepVars == <<logits, computed, prev_maxes, output_size>>

\* ------------------------------------------------------------ __init__
Instances == [topk : 1..MaxTopk, beamSearchMode : BOOLEAN,
              max_length : 1..MaxLen, use_attention : BOOLEAN,
              force_max_len : BOOLEAN, use_prob_vector : BOOLEAN]

\* A call frame before forward runs.
NoCall ==
  /\ pc = "idle"
  /\ err = ""
  /\ args = NoArgs
  /\ beamStates = NoBeam
  /\ encoder_outputs = NoContext
  /\ inputs = NoTensor
  /\ batch_size = 0
  /\ max_length = 0
  /\ use_teacher_forcing = FALSE
  /\ decoder_hidden = NoHidden
  /\ decoder_input = NoInput
  /\ decoder_outputs = << >>
  /\ sequence_symbols = << >>
  /\ lengths = << >>
  /\ attention_score = << >>
  /\ beamStatesLM = NoTrace
  /\ di = 0
  /\ step_calls = 0
  /\ step_input = NoInput
  /\ step_prev = NoHistory
  /\ step_hidden = NoStepHidden
  /\ bmSelected = NoSelection
  /\ decoder_output = NoOutput
  /\ ret_dict = NoDict

NoTopk ==
  /\ candScores = << >>
  /\ bmTopkInds_nxt = << >>
  /\ bmScores_nxt = << >>

NoStep ==
  /\ logits = << >>
  /\ computed = << >>
  /\ prev_maxes = NoHistory
  /\ output_size = 0

Init ==
  /\ self \in Instances
  /\ NoCall
  /\ NoTopk
  /\ NoStep

\* ------------------------------------------------------- _validate_args
\* _validate_args without the check of lines 262-264.
ValidateNoContextCheck(slf, inp, enc_hidden, enc_outputs, teacher_forcing_ratio) ==
  LET bs == IF inp.isNone /\ enc_hidden.isNone THEN 1
            ELSE IF ~inp.isNone THEN inp.B
            ELSE enc_hidden.B
      start == [isNone |-> FALSE, B |-> bs, L |-> 1,
                kind |-> IF slf.use_prob_vector THEN "onehot" ELSE "sos"]
  IN IF inp.isNone /\ teacher_forcing_ratio > 0
       THEN [raised |-> "ValueError: teacher forcing", inputs |-> inp,
             batch_size |-> 0, max_length |-> 0]
     ELSE IF inp.isNone
       THEN [raised |-> "", inputs |-> start, batch_size |-> bs,
             max_length |-> slf.max_length]
     ELSE [raised |-> "", inputs |-> inp, batch_size |-> bs,
           max_length |-> inp.L - 1]

\* _validate_args with line 280 testing for a ratio of 1 or more.
ValidateRatioOne(slf, inp, enc_hidden, enc_outputs, teacher_forcing_ratio) ==
  LET bs == IF inp.isNone /\ enc_hidden.isNone THEN 1
            ELSE IF ~inp.isNone THEN inp.B
            ELSE enc_hidden.B
      start == [isNone |-> FALSE, B |-> bs, L |-> 1,
                kind |-> IF slf.use_prob_vector THEN "onehot" ELSE "sos"]
  IN IF slf.use_attention /\ enc_outputs.isNone
       THEN [raised |-> "ValueError: encoder_outputs", inputs |-> inp,
             batch_size |-> 0, max_length |-> 0]
     ELSE IF inp.isNone /\ teacher_forcing_ratio >= 100
       THEN [raised |-> "ValueError: teacher forcing", inputs |-> inp,
             batch_size |-> 0, max_length |-> 0]
     ELSE IF inp.isNone
       THEN [raised |-> "", inputs |-> start, batch_size |-> bs,
             max_length |-> slf.max_length]
     ELSE [raised |-> "", inputs |-> inp, batch_size |-> bs,
           max_length |-> inp.L - 1]

\* The result of _validate_args: the exception it raises ("" if none) and
\* the triple it returns.
_validate_args(slf, inp, enc_hidden, enc_outputs, teacher_forcing_ratio) ==
  LET bs == IF inp.isNone /\ enc_hidden.isNone THEN 1
            ELSE IF ~inp.isNone THEN inp.B
            ELSE enc_hidden.B
      start == [isNone |-> FALSE, B |-> bs, L |-> 1,
                kind |-> IF slf.use_prob_vector THEN "onehot" ELSE "sos"]
  IN IF slf.use_attention /\ enc_outputs.isNone
       THEN [raised |-> "ValueError: encoder_outputs", inputs |-> inp,
             batch_size |-> 0, max_length |-> 0]
     ELSE IF inp.isNone /\ teacher_forcing_ratio > 0
       THEN [raised |-> "ValueError: teacher forcing", inputs |-> inp,
             batch_size |-> 0, max_length |-> 0]
     ELSE IF inp.isNone
       THEN [raised |-> "", inputs |-> start, batch_size |-> bs,
             max_length |-> slf.max_length]
     ELSE [raised |-> "", inputs |-> inp, batch_size |-> bs,
           max_length |-> inp.L - 1]

\* _init_state: the encoder state, with the directions concatenated, which
\* leaves the batch dimension as it is.
_init_state(enc_hidden) == enc_hidden

\* Mode with the beam branch tested before the teacher-forced one.
ModeBeamFirst(slf, teacher) ==
  IF slf.beamSearchMode THEN "beam"
  ELSE IF teacher THEN "teacher"
  ELSE "greedy"

\* The branch forward takes after the entry code (lines 179, 191, 229).
Mode(slf, teacher) ==
  IF teacher THEN "teacher"
  ELSE IF slf.beamSearchMode THEN "beam"
  ELSE "greedy"

\* ---------------------------------------------------------- forward_step
\* forward_step as forward sees it: the shapes of what it returns, whether
\* it overwrote logits, and the exception of the attention module when it
\* is handed no encoder context.
forward_step(slf, input_var, hidden, enc_outputs, history) ==
  [raised |-> IF slf.use_attention /\ enc_outputs.isNone
                THEN "TypeError: attention" ELSE "",
   predicted_softmax |-> [B |-> input_var.B, W |-> input_var.W,
                          attn |-> slf.use_attention],
   hidden |-> [isNone |-> FALSE, B |-> input_var.B, step |-> hidden.step + 1],
   overwrites |-> (input_var.W = 1 /\ ~history.isNone)]

\* Line 126: scatter_(1, index, value) writes value at column index[b] of
\* every row b.
scatter_(lg, index, value) ==
  [b \in DOMAIN lg |->
     [v \in DOMAIN lg[b] |-> IF v = index[b] THEN value ELSE lg[b][v]]]

\* Lines 124-126: the loop over the history, entry i onwards.
RECURSIVE ScatterFrom(_, _, _)
ScatterFrom(lg, history, i) ==
  IF i > Len(history) THEN lg
  ELSE ScatterFrom(scatter_(lg, history[i], OverwriteValue), history, i + 1)

\* forward_step_logits overwriting for the latest history entry alone.
forward_step_logits_last(out, size, history) ==
  IF size = 1 /\ ~history.isNone
    THEN IF history.val = << >> THEN out
         ELSE ScatterFrom(out, history.val, Len(history.val))
  ELSE out

\* Lines 121-126: the logits forward_step normalises, from the logits out
\* that self.out computed, size = input_var.size(1) and history = prev_maxes.
forward_step_logits(out, size, history) ==
  IF size = 1 /\ ~history.isNone THEN ScatterFrom(out, history.val, 1)
  ELSE out

\* ------------------------------------------------------------------ decode
\* UpdateLengths without the test lengths > step of line 164.
UpdateLengthsAnyStep(lens, step, eos, n) ==
  [raised |-> "",
   lengths |-> [b \in 1..Len(lens) |->
                 IF eos[IF Len(eos) = Len(lens) THEN b ELSE 1] THEN n
                 ELSE lens[b]]]

\* UpdateLengths recording the step index instead of the number of symbols
\* emitted so far.
UpdateLengthsStepIndex(lens, step, eos, n) ==
  IF Len(eos) = Len(lens)
    THEN [raised |-> "",
          lengths |-> [b \in 1..Len(lens) |->
                        IF lens[b] > step /\ eos[b] THEN step ELSE lens[b]]]
  ELSE IF Len(eos) = 1
    THEN [raised |-> "",
          lengths |-> [b \in 1..Len(lens) |->
                        IF lens[b] > step /\ eos[1] THEN step ELSE lens[b]]]
  ELSE IF Len(lens) = 1
    THEN [raised |-> "IndexError: boolean index", lengths |-> lens]
  ELSE [raised |-> "ValueError: broadcast", lengths |-> lens]

\* Lines 161-165: lengths is a numpy array of batch_size entries, eos the
\* flattened mask of the emitted symbols; numpy broadcasts the two when one
\* of them has one entry, and the assignment through a mask longer than
\* lengths raises.
UpdateLengths(lens, step, eos, n) ==
  IF Len(eos) = Len(lens)
    THEN [raised |-> "",
          lengths |-> [b \in 1..Len(lens) |->
                        IF lens[b] > step /\ eos[b] THEN n ELSE lens[b]]]
  ELSE IF Len(eos) = 1
    THEN [raised |-> "",
          lengths |-> [b \in 1..Len(lens) |->
                        IF lens[b] > step /\ eos[1] THEN n ELSE lens[b]]]
  ELSE IF Len(lens) = 1
    THEN [raised |-> "IndexError: boolean index", lengths |-> lens]
  ELSE [raised |-> "ValueError: broadcast", lengths |-> lens]

\* decode without the test of force_max_len of line 162.
decodeUnforced(slf, step, symbols, outs, attns, syms, lens) ==
  LET syms2 == Append(syms, symbols)
      eos_batches == [b \in 1..Len(symbols) |-> symbols[b] = eos_id]
      upd == UpdateLengths(lens, step, eos_batches, Len(syms2))
  IN [decoder_outputs |-> Append(outs, step),
      attention_score |-> IF slf.use_attention THEN Append(attns, step)
                          ELSE attns,
      sequence_symbols |-> syms2,
      lengths |-> upd.lengths,
      raised |-> upd.raised]

\* decode without the append of lines 156-157.
decodeNoAttention(slf, step, symbols, outs, attns, syms, lens) ==
  LET syms2 == Append(syms, symbols)
      eos_batches == [b \in 1..Len(symbols) |-> symbols[b] = eos_id]
      upd == IF ~slf.force_max_len
               THEN UpdateLengths(lens, step, eos_batches, Len(syms2))
               ELSE [raised |-> "", lengths |-> lens]
  IN [decoder_outputs |-> Append(outs, step),
      attention_score |-> attns,
      sequence_symbols |-> syms2,
      lengths |-> upd.lengths,
      raised |-> upd.raised]

\* decode(step, step_output, step_attn), with symbols the tokens topk(1)
\* picks from step_output.  A step output is named by its position.
decode(slf, step, symbols, outs, attns, syms, lens) ==
  LET syms2 == Append(syms, symbols)
      eos_batches == [b \in 1..Len(symbols) |-> symbols[b] = eos_id]
      upd == IF ~slf.force_max_len
               THEN UpdateLengths(lens, step, eos_batches, Len(syms2))
               ELSE [raised |-> "", lengths |-> lens]
  IN [decoder_outputs |-> Append(outs, step),
      attention_score |-> IF slf.use_attention THEN Append(attns, step)
                          ELSE attns,
      sequence_symbols |-> syms2,
      lengths |-> upd.lengths,
      raised |-> upd.raised]


\* Where a loop of bound `bound` stands after iteration `next - 1`.
LoopPc(loop, next, bound) == IF next >= bound THEN "return" ELSE loop

\* ----------------------------------------------------------------- forward
\* InitTrace seeding the hidden trace from the caller's hidden state.
InitTraceFromHiddens(bs) ==
  [probVec |-> <<EmptyEntry>>,
   hiddens |-> <<[src |-> "beamStates.hiddens[0]", step |-> 0, rows |-> 0]>>,
   cells |-> <<SeedCells>>]

\* Lines 149-152: the trace a call starts with, from the caller's bundle bs.
InitTrace(bs) ==
  [probVec |-> <<EmptyEntry>>, hiddens |-> <<SeedCells>>,
   cells |-> <<SeedCells>>]

\* Lines 132-152 and the choice of the branch.
Forward ==
  /\ pc = "idle"
  /\ \E inp \in {NoTensor} \cup GivenInputs,
        bs \in {NoBeam} \cup BeamSeeds,
        eo \in {NoContext, Context},
        tfr \in Ratios,
        max_len \in 1..MaxLen :
       \E eh \in {NoHidden} \cup {h \in Hiddens : inp.isNone \/ h.B = inp.B} :
         LET slf == [self EXCEPT !.max_length = max_len]
             v == _validate_args(slf, inp, eh, eo, tfr)
             raised == IF v.raised # "" THEN v.raised
                       ELSE IF bs.isNone THEN "TypeError: beamStates"
                       ELSE ""
         IN \E rand \in IF raised = "" THEN Draws ELSE {0} :
              LET teacher == rand < tfr
              IN /\ self' = slf
                 /\ args' = [present |-> TRUE, inputs |-> inp,
                             encoder_hidden |-> eh,
                             teacher_forcing_ratio |-> tfr,
                             max_len |-> max_len, rand |-> rand]
                 /\ beamStates' = bs
                 /\ encoder_outputs' = eo
                 /\ err' = raised
                 /\ inputs' = v.inputs
                 /\ max_length' = v.max_length
                 /\ attention_score' = << >>
                 /\ decoder_outputs' = << >>
                 /\ sequence_symbols' = << >>
                 /\ decoder_input' = NoInput
                 /\ step_input' = NoInput
                 /\ step_prev' = NoHistory
                 /\ step_hidden' = NoStepHidden
                 /\ bmSelected' = NoSelection
                 /\ decoder_output' = NoOutput
                 /\ step_calls' = 0
                 /\ di' = 0
                 /\ ret_dict' = NoDict
                 /\ IF raised # ""
                      THEN /\ pc' = "raised"
                           /\ batch_size' = v.batch_size
                           /\ use_teacher_forcing' = FALSE
                           /\ decoder_hidden' = NoHidden
                           /\ lengths' = << >>
                           /\ beamStatesLM' = NoTrace
                      ELSE /\ pc' = Mode(slf, teacher)
                           /\ batch_size' = bs.B
                           /\ use_teacher_forcing' = teacher
                           /\ decoder_hidden' = _init_state(eh)
                           /\ lengths' = [b \in 1..bs.B |-> v.max_length]
                           /\ beamStatesLM' = InitTrace(bs)
  /\ UNCHANGED <<topkVars, stepVars>>

\* What every step of a loop leaves alone.
frameVars == <<self, beamStates, encoder_outputs, inputs, batch_size,
               max_length, use_teacher_forcing, ret_dict>>


\* PrevMaxes handing the symbols emitted so far to every branch.
PrevMaxesEveryBranch(branch, syms) == [isNone |-> FALSE, val |-> syms]

\* The prev_maxes argument of the forward_step calls of a branch: left at
\* its default None in the teacher-forced one (lines 181-182), None in the
\* beam one (line 207), the list sequence_symbols in the greedy one (lines
\* 232-233).
PrevMaxes(branch, syms) ==
  IF branch = "greedy" THEN [isNone |-> FALSE, val |-> syms]
  ELSE NoHistory

\* Line 180: inputs[:, :-1], the input without its last token.
TeacherInput(inp) ==
  [kind |-> "inputs[:, :-1]", B |-> inp.B, W |-> inp.L - 1, val |-> << >>]

\* Lines 180-182: the teacher-forced branch hands the whole input but its
\* last token to one forward_step call.
TeacherForcedStep ==
  /\ pc = "teacher"
  /\ LET input_var == TeacherInput(inputs)
         history == PrevMaxes("teacher", sequence_symbols)
         r == forward_step(self, input_var, decoder_hidden, encoder_outputs,
                           history)
     IN /\ decoder_input' = input_var
        /\ step_input' = input_var
        /\ step_prev' = history
        /\ step_hidden' = [state |-> decoder_hidden, h |-> "decoder_hidden",
                           c |-> "decoder_hidden"]
        /\ step_calls' = step_calls + 1
        /\ IF r.raised # ""
             THEN /\ pc' = "raised"
                  /\ err' = r.raised
                  /\ UNCHANGED <<decoder_output, decoder_hidden>>
             ELSE /\ pc' = LoopPc("tf_loop", 0, r.predicted_softmax.W)
                  /\ err' = ""
                  /\ decoder_output' = r.predicted_softmax
                  /\ decoder_hidden' = r.hidden
  /\ args' = NoArgs
  /\ di' = 0
  /\ UNCHANGED <<frameVars, decoder_outputs, sequence_symbols, lengths,
                 attention_score, beamStatesLM, bmSelected>>
  /\ UNCHANGED <<topkVars, stepVars>>

\* Lines 184-190: one position of the teacher-forced output.
TeacherForcedDecode ==
  /\ pc = "tf_loop"
  /\ di < decoder_output.W
  /\ \E symbols \in [1..decoder_output.B -> Vocab] :
       LET d == decode(self, di, symbols, decoder_outputs, attention_score,
                       sequence_symbols, lengths)
       IN /\ decoder_outputs' = d.decoder_outputs
          /\ attention_score' = d.attention_score
          /\ sequence_symbols' = d.sequence_symbols
          /\ lengths' = d.lengths
          /\ err' = d.raised
          /\ pc' = IF d.raised # "" THEN "raised"
                   ELSE LoopPc("tf_loop", di + 1, decoder_output.W)
          /\ di' = IF d.raised # "" THEN di ELSE di + 1
  /\ args' = NoArgs
  /\ UNCHANGED <<frameVars, decoder_hidden, decoder_input, beamStatesLM,
                 step_calls, step_input, step_prev, step_hidden, bmSelected,
                 decoder_output>>
  /\ UNCHANGED <<topkVars, stepVars>>

\* NextDecoderInput feeding the chosen symbols back in either
\* representation.
NextDecoderInputSymbols(slf, symbols, step, B) ==
  [kind |-> "symbols", B |-> B, W |-> 1, val |-> symbols]

\* Line 236: the input of the next greedy iteration, from the symbols decode
\* returned and the step output (named by its position) of this one.
NextDecoderInput(slf, symbols, step, B) ==
  IF ~slf.use_prob_vector
    THEN [kind |-> "symbols", B |-> B, W |-> 1, val |-> symbols]
  ELSE [kind |-> "step_output", B |-> B, W |-> 1, val |-> <<step>>]

\* Lines 230-236: one iteration of the greedy loop (line 230 before the
\* first).
GreedyStep ==
  /\ pc = "greedy"
  /\ di < max_length
  /\ LET input_var == IF di = 0
                        THEN [kind |-> "inputs[:, 0]", B |-> inputs.B,
                              W |-> 1, val |-> << >>]
                        ELSE decoder_input
         history == PrevMaxes("greedy", sequence_symbols)
         r == forward_step(self, input_var, decoder_hidden, encoder_outputs,
                           history)
     IN /\ step_input' = input_var
        /\ step_prev' = history
        /\ step_hidden' = [state |-> decoder_hidden, h |-> "decoder_hidden",
                           c |-> "decoder_hidden"]
        /\ step_calls' = step_calls + 1
        /\ IF r.raised # ""
             THEN /\ pc' = "raised"
                  /\ err' = r.raised
                  /\ decoder_input' = input_var
                  /\ UNCHANGED <<decoder_output, decoder_hidden,
                                 decoder_outputs, attention_score,
                                 sequence_symbols, lengths, di>>
             ELSE \E symbols \in [1..input_var.B -> Vocab] :
                    LET d == decode(self, di, symbols, decoder_outputs,
                                    attention_score, sequence_symbols,
                                    lengths)
                    IN /\ decoder_output' = r.predicted_softmax
                       /\ decoder_hidden' = r.hidden
                       /\ decoder_outputs' = d.decoder_outputs
                       /\ attention_score' = d.attention_score
                       /\ sequence_symbols' = d.sequence_symbols
                       /\ lengths' = d.lengths
                       /\ err' = d.raised
                       /\ IF d.raised # ""
                            THEN /\ pc' = "raised"
                                 /\ decoder_input' = input_var
                                 /\ di' = di
                            ELSE /\ pc' = LoopPc("greedy", di + 1, max_length)
                                 /\ decoder_input' =
                                      NextDecoderInput(self, symbols, di,
                                                       input_var.B)
                                 /\ di' = di + 1
  /\ args' = NoArgs
  /\ UNCHANGED <<frameVars, beamStatesLM, bmSelected>>
  /\ UNCHANGED <<topkVars, stepVars>>

\* Lines 238-241.
Return ==
  /\ pc = "return"
  /\ pc' = "done"
  /\ ret_dict' = [returned |-> TRUE, sequence |-> sequence_symbols,
                  length |-> lengths, beamStates |-> beamStatesLM]
  /\ args' = NoArgs
  /\ UNCHANGED <<self, err, beamStates, encoder_outputs, inputs, batch_size,
                 max_length, use_teacher_forcing, decoder_hidden,
                 decoder_input, decoder_outputs, sequence_symbols, lengths,
                 attention_score, beamStatesLM, di, step_calls, step_input,
                 step_prev, step_hidden, bmSelected, decoder_output>>
  /\ UNCHANGED <<topkVars, stepVars>>

\* ------------------------------------------------------ getTopkIndsnScores
\* torch.topk(row, k, largest=False) on one row, a function from the
\* flattened indices to scores: the k smallest entries in ascending order,
\* found by taking a smallest remaining entry k times.  Entries of equal
\* score come in any order.
RECURSIVE TopkSmallest(_, _, _)
TopkSmallest(row, k, taken) ==
  IF k = 0 THEN {<< >>}
  ELSE LET rest == (DOMAIN row) \ taken
           mins == {f \in rest : \A g \in rest : row[f] <= row[g]}
       IN UNION {{<<f>> \o s : s \in TopkSmallest(row, k - 1, taken \cup {f})} :
                   f \in mins}

\* candScores[:,:,0] is indexed [hypothesis][batch][vocab]; line 169 permutes
\* it to [batch][hypothesis][vocab] and line 171 flattens the last two.
Flatten(cand, b) ==
  LET K == Len(cand)
      V == Cardinality(DOMAIN cand[1][b])
  IN [f \in 0..(K * V - 1) |-> cand[(f \div V) + 1][b][f % V]]

\* StackInds with the pair the other way round.
StackIndsSwapped(zzz, V, topk) ==
  [k \in 1..topk |-> [b \in 1..Len(zzz) |-> <<zzz[b][k] % V, zzz[b][k] \div V>>]]

\* Lines 172-174 on the indices zzz[batch][k] that topk returned, V the
\* vocabulary dimension of the candidates: bmTopkInds_nxt indexed [k][batch]
\* holds the pair (inds / V, inds % V).
StackInds(zzz, V, topk) ==
  [k \in 1..topk |-> [b \in 1..Len(zzz) |-> <<zzz[b][k] \div V, zzz[b][k] % V>>]]

\* Every result getTopkIndsnScores can return for candScores: bmTopkInds_nxt
\* and bmScores_nxt, both indexed [k][batch].  Empty when topk exceeds the
\* K * V candidates of a row, where torch.topk raises.
getTopkIndsnScores(slf, cand) ==
  LET B == Len(cand[1])
      K == Len(cand)
      V == Cardinality(DOMAIN cand[1][1])
      picks == [b \in 1..B |->
                  IF slf.topk > K * V THEN {}
                  ELSE TopkSmallest(Flatten(cand, b), slf.topk, {})]
      choices == {zzz \in [1..B -> UNION {picks[b] : b \in 1..B}] :
                    \A b \in 1..B : zzz[b] \in picks[b]}
  IN {[bmTopkInds_nxt |-> StackInds(zzz, V, slf.topk),
       bmScores_nxt |->
         [k \in 1..slf.topk |->
            [b \in 1..B |-> Flatten(cand, b)[zzz[b][k]]]]] :
        zzz \in choices}

\* The index tuples topk can return for one row of n * VocabSize candidates,
\* over every row of scores (two score values, with ties, reach them all).
RowPicks ==
  [n \in 1..MaxTopk, k \in 1..MaxTopk |->
     IF k > n * VocabSize THEN {}
     ELSE UNION {TopkSmallest(row, k, {}) :
                   row \in [0..(n * VocabSize - 1) -> 0..1]}]

\* The candidate score tensors of n hypotheses and B batch rows with scores
\* in vals.
CandScores(n, B, vals) == [1..n -> [1..B -> [Vocab -> vals]]]

\* Lines 192-220: one step of the beam loop (line 192 before the first).
\* The caller's bundle holds the entries the step reads at index di, or it
\* does not and line 197 raises; its entry holds n hypotheses, and tokens
\* are the last tokens of the hypothesis expanded last.  The step stacks
\* what the n forward_step calls returned and appends it to the trace; what
\* getTopkIndsnScores returns is bound to two locals no line reads; with
\* the weights unknown, the hypothesis it selects last ends in any token.
BeamStep ==
  /\ pc = "beam"
  /\ di < max_length
  /\ \E present \in IF di = 0 THEN {TRUE} ELSE BOOLEAN :
       IF ~present
         THEN /\ pc' = "raised"
              /\ err' = "IndexError: beamStates"
              /\ UNCHANGED <<decoder_hidden, decoder_input, beamStatesLM, di,
                             step_calls, step_input, step_prev, step_hidden,
                             bmSelected, decoder_output>>
         ELSE \E n \in 1..MaxTopk, tokens \in [1..batch_size -> Vocab] :
                LET input_var == [kind |-> "bmTopkInds[k][:, 1]",
                                  B |-> batch_size, W |-> 1, val |-> tokens]
                    gathered == [isNone |-> FALSE, B |-> batch_size,
                                 step |-> di]
                    history == PrevMaxes("beam", sequence_symbols)
                    r == forward_step(self, input_var, gathered,
                                      encoder_outputs, history)
                IN /\ decoder_input' = [kind |-> "inputs[:, 0]",
                                        B |-> inputs.B, W |-> 1,
                                        val |-> << >>]
                   /\ step_input' = input_var
                   /\ step_prev' = history
                   /\ step_hidden' = [state |-> gathered,
                                      h |-> beamStatesLM.hiddens[di + 1].src,
                                      c |-> beamStatesLM.cells[di + 1].src]
                   /\ IF r.raised # ""
                        THEN /\ pc' = "raised"
                             /\ err' = r.raised
                             /\ step_calls' = step_calls + 1
                             /\ UNCHANGED <<decoder_hidden, beamStatesLM, di,
                                            bmSelected, decoder_output>>
                        ELSE /\ step_calls' = step_calls + n
                             /\ decoder_output' = r.predicted_softmax
                             /\ decoder_hidden' = r.hidden
                             /\ IF RowPicks[n, self.topk] = {}
                                  THEN /\ pc' = "raised"
                                       /\ err' = "RuntimeError: topk"
                                       /\ UNCHANGED <<beamStatesLM, di,
                                                      bmSelected>>
                                  ELSE /\ \E last \in [1..batch_size -> Vocab] :
                                            bmSelected' =
                                              [isNone |-> FALSE,
                                               n |-> self.topk,
                                               tokens |-> last]
                                       /\ beamStatesLM' =
                                            [probVec |-> Append(beamStatesLM.probVec, Stacked(di, n)),
                                             hiddens |-> Append(beamStatesLM.hiddens, Stacked(di, n)),
                                             cells |-> Append(beamStatesLM.cells, Stacked(di, n))]
                                       /\ err' = ""
                                       /\ pc' = LoopPc("beam", di + 1,
                                                       max_length)
                                       /\ di' = di + 1
  /\ args' = NoArgs
  /\ UNCHANGED <<frameVars, decoder_outputs, sequence_symbols, lengths,
                 attention_score>>
  /\ UNCHANGED <<topkVars, stepVars>>

\* The call is over (it returned or raised) and its frame is dropped; the
\* instance stays as the call left it.
EndCall ==
  /\ pc \in {"done", "raised"}
  /\ pc' = "idle"
  /\ err' = ""
  /\ args' = NoArgs
  /\ beamStates' = NoBeam
  /\ encoder_outputs' = NoContext
  /\ inputs' = NoTensor
  /\ batch_size' = 0
  /\ max_length' = 0
  /\ use_teacher_forcing' = FALSE
  /\ decoder_hidden' = NoHidden
  /\ decoder_input' = NoInput
  /\ decoder_outputs' = << >>
  /\ sequence_symbols' = << >>
  /\ lengths' = << >>
  /\ attention_score' = << >>
  /\ beamStatesLM' = NoTrace
  /\ di' = 0
  /\ step_calls' = 0
  /\ step_input' = NoInput
  /\ step_prev' = NoHistory
  /\ step_hidden' = NoStepHidden
  /\ bmSelected' = NoSelection
  /\ decoder_output' = NoOutput
  /\ ret_dict' = NoDict
  /\ UNCHANGED self
  /\ UNCHANGED <<topkVars, stepVars>>

Next ==
  \/ Forward
  \/ TeacherForcedStep
  \/ TeacherForcedDecode
  \/ BeamStep
  \/ GreedyStep
  \/ Return
  \/ EndCall

Spec == Init /\ [][Next]_vars

\* ------------------------------------------- getTopkIndsnScores on its own
\* An instance that differs from the others in topk alone.
TopkInstances ==
  {i \in Instances : /\ ~i.beamSearchMode /\ ~i.use_attention
                     /\ ~i.force_max_len /\ ~i.use_prob_vector
                     /\ i.max_length = 1}

InitTopk ==
  /\ self \in TopkInstances
  /\ NoCall
  /\ NoStep
  /\ candScores \in UNION {CandScores(n, B, 0..MaxScore) :
                             n \in 1..MaxTopk, B \in Batches}
  /\ bmTopkInds_nxt = << >>
  /\ bmScores_nxt = << >>

\* Line 217: the call, on the candidate scores of one beam step.
SelectTopk ==
  /\ candScores # << >>
  /\ bmTopkInds_nxt = << >>
  /\ \E res \in getTopkIndsnScores(self, candScores) :
       /\ bmTopkInds_nxt' = res.bmTopkInds_nxt
       /\ bmScores_nxt' = res.bmScores_nxt
  /\ UNCHANGED <<callVars, stepVars, candScores>>

SpecTopk == InitTopk /\ [][SelectTopk]_vars

\* ------------------------------------------------- forward_step on its own
\* The histories a caller can pass for B batch rows: None, or a list of at
\* most MaxLen symbol tensors of B rows.
Histories(B) ==
  {NoHistory} \cup
  {[isNone |-> FALSE, val |-> h] :
     h \in UNION {[1..len -> [1..B -> Vocab]] : len \in 0..MaxLen}}

\* self.out returns one row of logits per batch row and input position.
InitStep ==
  /\ self \in TopkInstances
  /\ NoCall
  /\ NoTopk
  /\ logits = << >>
  /\ output_size \in 1..MaxLen
  /\ \E B \in Batches :
       /\ computed \in [1..(B * output_size) -> [Vocab -> LogitVals]]
       /\ prev_maxes \in Histories(B)

\* Lines 121-126.
OverwriteLogits ==
  /\ computed # << >>
  /\ logits = << >>
  /\ logits' = forward_step_logits(computed, output_size, prev_maxes)
  /\ UNCHANGED <<callVars, topkVars, computed, prev_maxes, output_size>>

SpecStep == InitStep /\ [][OverwriteLogits]_vars

\* =================================================================== claims
\* The entry code ran through and the call took a branch.
Dispatched == lengths # << >>
\* The branch of the current call.
CallMode == Mode(self, use_teacher_forcing)
ValueErrors == {"ValueError: encoder_outputs", "ValueError: teacher forcing"}

\* The symbol of step i (counted from 1) whose EOS test decided entry b of
\* lengths.
Emitted(i, b) ==
  IF Len(sequence_symbols[i]) = Len(lengths) THEN sequence_symbols[i][b]
  ELSE sequence_symbols[i][1]

\* Entry b was set at an earlier step, by the EOS emitted there.
Finalized(b) ==
  /\ lengths[b] >= 1
  /\ lengths[b] <= Len(sequence_symbols)
  /\ Emitted(lengths[b], b) = eos_id

\* C1: in the teacher-forced and greedy branches with force_max_len off, a
\* length entry that an EOS finalized is changed by no later step, whatever
\* that step emits, and is the value the call returns.
C1_FinalizedLengthKept ==
  [][(Dispatched /\ CallMode # "beam" /\ ~self.force_max_len /\ pc' # "idle")
       => \A b \in DOMAIN lengths :
            Finalized(b) =>
              /\ lengths'[b] = lengths[b]
              /\ pc' = "done" => ret_dict'.length[b] = lengths[b]]_vars

\* C1 witness: an element that emitted EOS at step 0 and again at step 1,
\* returned with length 1.
C1_Witness ==
  /\ pc = "done"
  /\ CallMode # "beam"
  /\ ~self.force_max_len
  /\ Len(sequence_symbols) = 2
  /\ \E b \in DOMAIN lengths :
       /\ Emitted(1, b) = eos_id
       /\ Emitted(2, b) = eos_id
       /\ ret_dict.length[b] = 1

\* C2: with force_max_len set, every entry of lengths is max_length in every
\* state of a call and in the list the call returns.
C2_ForcedLengths ==
  (self.force_max_len /\ Dispatched) =>
    /\ Len(lengths) = batch_size
    /\ \A b \in DOMAIN lengths : lengths[b] = max_length
    /\ ret_dict.returned => ret_dict.length = lengths

\* C2 witness: a returned call of two steps in which every element emitted
\* EOS at the first step.
C2_Witness ==
  /\ self.force_max_len
  /\ pc = "done"
  /\ max_length = 2
  /\ Len(sequence_symbols) = 2
  /\ \A b \in DOMAIN sequence_symbols[1] : sequence_symbols[1][b] = eos_id
  /\ \A b \in DOMAIN ret_dict.length : ret_dict.length[b] = 2

\* C3: a call that took the greedy branch has max_length = max_len when it
\* was given no input and input length - 1 otherwise, does not raise, never
\* holds more than max_length step outputs or a length entry above
\* max_length, and returns exactly max_length step outputs.
C3_GreedyCounts ==
  (Dispatched /\ CallMode = "greedy") =>
    /\ max_length = IF inputs.kind = "given" THEN inputs.L - 1
                    ELSE self.max_length
    /\ args.present => /\ self.max_length = args.max_len
                       /\ args.inputs.isNone <=> inputs.kind # "given"
    /\ pc # "raised"
    /\ Len(decoder_outputs) <= max_length
    /\ \A b \in DOMAIN lengths : lengths[b] <= max_length
    /\ pc = "done" =>
         /\ Len(decoder_outputs) = max_length
         /\ \A b \in DOMAIN ret_dict.length : ret_dict.length[b] <= max_length

\* C4: a call that took the teacher-forced branch makes one forward_step
\* call, on the input without its last token, does not raise, and returns
\* one step output per position of that input, in order.
C4_TeacherForcedCounts ==
  (Dispatched /\ CallMode = "teacher") =>
    /\ inputs.kind = "given"
    /\ pc = "teacher" => step_calls = 0
    /\ pc # "teacher" =>
         /\ step_calls = 1
         /\ step_input = [kind |-> "inputs[:, :-1]", B |-> inputs.B,
                          W |-> inputs.L - 1, val |-> << >>]
    /\ pc # "raised"
    /\ Len(decoder_outputs) <= inputs.L - 1
    /\ pc = "done" => decoder_outputs = [i \in 1..(inputs.L - 1) |-> i - 1]

\* C5: a call on an instance with attention and no encoder_outputs ends in
\* the ValueError of _validate_args, with no forward_step call made and
\* nothing returned, whatever the other arguments.
C5_NoContextRaises ==
  (pc # "idle" /\ self.use_attention /\ encoder_outputs.isNone) =>
    /\ pc = "raised"
    /\ err = "ValueError: encoder_outputs"
    /\ step_calls = 0
    /\ decoder_outputs = << >>
    /\ ~ret_dict.returned

\* C5 witness: such a call that was given input, a beam state and a
\* teacher-forcing ratio of 1.
C5_Witness ==
  /\ pc = "raised"
  /\ self.use_attention
  /\ encoder_outputs.isNone
  /\ args.present
  /\ ~args.inputs.isNone
  /\ ~beamStates.isNone
  /\ args.teacher_forcing_ratio = 100

\* C6: a call without input and with a teacher-forcing ratio other than 0
\* ends in a ValueError of _validate_args before any step; without input and
\* with ratio 0 the ratio check does not raise, and unless the attention
\* check raises, validation passes and inputs is the start token tensor of
\* batch_size x 1.
C6_NoInputRatio ==
  (args.present /\ args.inputs.isNone) =>
    IF args.teacher_forcing_ratio # 0
      THEN /\ pc = "raised"
           /\ err \in ValueErrors
           /\ (~(self.use_attention /\ encoder_outputs.isNone)
                 => err = "ValueError: teacher forcing")
           /\ step_calls = 0
           /\ decoder_outputs = << >>
      ELSE /\ err # "ValueError: teacher forcing"
           /\ (~(self.use_attention /\ encoder_outputs.isNone)) =>
                /\ err \notin ValueErrors
                /\ inputs.kind = IF self.use_prob_vector THEN "onehot"
                                 ELSE "sos"
                /\ inputs.L = 1
                /\ inputs.B = IF args.encoder_hidden.isNone THEN 1
                              ELSE args.encoder_hidden.B

\* C6 witness, the raise: no input, ratio one half.
C6_Witness ==
  /\ args.present
  /\ args.inputs.isNone
  /\ args.teacher_forcing_ratio = 50
  /\ err = "ValueError: teacher forcing"

\* The candidates (hypothesis, token) of the tensor candScores.
Candidates == (1..Len(candScores)) \X Vocab

\* C7: for every batch row, the pairs getTopkIndsnScores returns are topk
\* distinct candidates (parent, token) of the K x V scores of that row, the
\* score returned with a pair is the candidate score at (parent, token),
\* and no candidate left out scores below a returned one.
C7_TopkSelection ==
  (bmTopkInds_nxt # << >>) =>
    /\ Len(bmTopkInds_nxt) = self.topk
    /\ Len(bmScores_nxt) = self.topk
    /\ \A b \in 1..Len(candScores[1]) :
         LET picked == {<<bmTopkInds_nxt[k][b][1] + 1, bmTopkInds_nxt[k][b][2]>> :
                          k \in 1..self.topk}
         IN /\ picked \subseteq Candidates
            /\ Cardinality(picked) = self.topk
            /\ \A k \in 1..self.topk :
                 bmScores_nxt[k][b] =
                   candScores[bmTopkInds_nxt[k][b][1] + 1][b][bmTopkInds_nxt[k][b][2]]
            /\ \A c \in Candidates \ picked : \A k \in 1..self.topk :
                 candScores[c[1]][b][c[2]] >= bmScores_nxt[k][b]

\* C7 witness: K = topk = 2 hypotheses and two batch rows, where row 1
\* selects candidates of two different parents and leaves out a candidate
\* of higher score.
C7_Witness ==
  /\ bmTopkInds_nxt # << >>
  /\ self.topk = 2
  /\ Len(candScores) = 2
  /\ Len(candScores[1]) = 2
  /\ bmTopkInds_nxt[1][1][1] # bmTopkInds_nxt[2][1][1]
  /\ \E c \in Candidates : candScores[c[1]][1][c[2]] > bmScores_nxt[2][1]

\* C8: after every beam step the step has kept exactly topk hypotheses per
\* batch element: every stacked entry of the trace holds topk rows, and so a
\* step after step 0 expands topk hypotheses.
C8_ExactlyKRetained ==
  \A i \in DOMAIN beamStatesLM.hiddens :
    beamStatesLM.hiddens[i].src = "stack" =>
      beamStatesLM.hiddens[i].rows = self.topk

\* C9: a call that passes validation and was given no beam state does not
\* raise for want of it.
C9_BeamStateOptional ==
  (pc # "idle" /\ beamStates.isNone) => err # "TypeError: beamStates"

\* C10: the logits forward_step normalises: with one input position and a
\* history, the overwrite value at the tokens of a row's history and the
\* computed logit everywhere else; with more positions or no history, the
\* computed logits.
C10_HistoryOverwritten ==
  (logits # << >>) =>
    IF output_size = 1 /\ ~prev_maxes.isNone
      THEN /\ DOMAIN logits = DOMAIN computed
           /\ \A b \in DOMAIN logits : \A v \in Vocab :
                logits[b][v] =
                  IF \E i \in DOMAIN prev_maxes.val : prev_maxes.val[i][b] = v
                    THEN OverwriteValue
                    ELSE computed[b][v]
      ELSE logits = computed

\* C10 witness: two rows, a history of two steps in which row 1 chose two
\* different tokens and row 2 the same token twice.
C10_Witness ==
  /\ logits # << >>
  /\ output_size = 1
  /\ ~prev_maxes.isNone
  /\ Len(prev_maxes.val) = 2
  /\ Len(logits) = 2
  /\ prev_maxes.val[1][1] # prev_maxes.val[2][1]
  /\ prev_maxes.val[1][2] = prev_maxes.val[2][2]
  /\ \E v \in Vocab : logits[2][v] # OverwriteValue

\* The program points of the three branches, and the points after them.
TeacherPcs == {"teacher", "tf_loop"}
BeamPcs == {"beam"}
GreedyPcs == {"greedy"}
AfterPcs == {"return", "done", "raised"}

C12_SelectionFeedsNextStep ==
  [][(pc = "beam" /\ di >= 1 /\ step_calls' # step_calls) =>
       /\ ~bmSelected.isNone
       /\ step_calls' = step_calls + bmSelected.n
       /\ step_input'.val = bmSelected.tokens
       /\ step_hidden'.h = "stack"
       /\ step_hidden'.c = "stack"]_vars

\* The batch size _validate_args infers: that of the input, or of the encoder
\* state, or 1.
InputBatch == inputs.B

\* C13: the batch size of a call is the width of the beam state in the beam
\* branch and the batch size of the input (of the encoder state, or 1,
\* without input) in the other two, and lengths and every step's symbols
\* have that many entries.
C13_BatchSizeDerived ==
  Dispatched =>
    /\ batch_size = IF CallMode = "beam" THEN beamStates.B ELSE InputBatch
    /\ Len(lengths) = batch_size
    /\ \A i \in DOMAIN sequence_symbols : Len(sequence_symbols[i]) = batch_size

\* The first step (counted from 1) of the symbol lists syms at which the
\* element deciding entry b of a length vector of n entries emitted EOS;
\* 0 when it never did.
FirstEos(syms, n, b) ==
  LET at(i) == IF Len(syms[i]) = n THEN syms[i][b] ELSE syms[i][1]
      hits == {i \in DOMAIN syms : at(i) = eos_id}
  IN IF hits = {} THEN 0
     ELSE CHOOSE i \in hits : \A j \in hits : i <= j

\* C14: in the teacher-forced and greedy branches with force_max_len off,
\* after every step that did not raise, and in the list returned, an entry
\* of lengths is the number of the first step at which its element emitted
\* EOS, or max_length when it has emitted none; an entry is never below 0
\* nor above max_length, and no step raises it.
C14_LengthIsFirstEos ==
  [][(/\ lengths' # << >>
      /\ pc' \in TeacherPcs \cup GreedyPcs \cup {"return", "done"}
      /\ ~(~use_teacher_forcing' /\ self'.beamSearchMode)
      /\ ~self'.force_max_len) =>
       \A b \in DOMAIN lengths' :
         LET first == FirstEos(sequence_symbols', Len(lengths'), b)
             expected == IF first = 0 THEN max_length' ELSE first
         IN /\ lengths'[b] = expected
            /\ lengths'[b] >= 0
            /\ lengths'[b] <= max_length'
            /\ pc # "idle" => lengths'[b] <= lengths[b]
            /\ pc' = "done" => ret_dict'.length[b] = expected]_vars

\* C14 witness: a returned call of two steps on two rows: row 1 emitted EOS
\* at both steps and has length 1, row 2 emitted none and has length 2.
C14_Witness ==
  /\ pc = "done"
  /\ ~self.force_max_len
  /\ CallMode # "beam"
  /\ Len(sequence_symbols) = 2
  /\ Len(lengths) = 2
  /\ sequence_symbols[1] = <<eos_id, sos_id>>
  /\ sequence_symbols[2] = <<eos_id, sos_id>>
  /\ ret_dict.length = <<1, 2>>

\* C15: in the greedy branch the first forward_step call gets the first
\* column of the input (the start token when the call was given none) and
\* the encoder's state; every later one gets what the iteration before
\* chose, its symbols or, on an instance with use_prob_vector, its step
\* output, and the state that iteration's forward_step call returned.
C15_GreedyFeedback ==
  [][(pc = "greedy" /\ step_calls' = step_calls + 1) =>
       IF di = 0
         THEN /\ step_input' = [kind |-> "inputs[:, 0]", B |-> inputs.B,
                                W |-> 1, val |-> << >>]
              /\ step_hidden'.state = args.encoder_hidden
         ELSE /\ step_input' =
                   IF self.use_prob_vector
                     THEN [kind |-> "step_output", B |-> inputs.B, W |-> 1,
                           val |-> <<decoder_outputs[di]>>]
                     ELSE [kind |-> "symbols", B |-> inputs.B, W |-> 1,
                           val |-> sequence_symbols[di]]
              /\ step_hidden'.state =
                   [isNone |-> FALSE, B |-> inputs.B, step |-> di]
              /\ step_hidden'.state = decoder_hidden]_vars

\* C15 witness: the second iteration of a greedy call with use_prob_vector
\* was fed the step output of the first, and the call returned.
C15_Witness ==
  /\ pc = "done"
  /\ CallMode = "greedy"
  /\ self.use_prob_vector
  /\ step_calls = 2
  /\ step_input.kind = "step_output"
  /\ step_input.val = <<0>>
  /\ step_hidden.state.step = 1

\* C16: a forward_step call of the teacher-forced or the beam branch gets
\* no history, so it overwrites no logit; the call of greedy iteration i
\* gets the symbols of iterations 0..i-1, none at iteration 0, and with its
\* one input position it overwrites the logits of those symbols.
C16_SuppressionOnlyGreedy ==
  [][(step_calls' > step_calls) =>
       LET overwrites == step_input'.W = 1 /\ ~step_prev'.isNone
       IN IF pc \in GreedyPcs
            THEN /\ ~step_prev'.isNone
                 /\ Len(step_prev'.val) = di
                 /\ step_prev'.val = sequence_symbols
                 /\ \A i \in 1..di : step_prev'.val[i] = sequence_symbols'[i]
                 /\ overwrites
            ELSE /\ pc \in TeacherPcs \cup BeamPcs
                 /\ step_prev'.isNone
                 /\ ~overwrites]_vars

\* C16 witness, the branches without history: a beam step made its
\* forward_step calls on one input position each and handed them None.
C16_Witness ==
  /\ CallMode = "beam"
  /\ step_calls >= 2
  /\ step_input.W = 1
  /\ step_prev.isNone
  /\ Len(beamStatesLM.probVec) = 3

\* The trace list tr holds, after its first entry, the records that beam
\* steps 0..n-1 stacked, in order.
HoldsSteps(tr, n) ==
  /\ Len(tr) = n + 1
  /\ \A i \in 1..n : tr[i + 1].src = "stack" /\ tr[i + 1].step = i - 1

\* C17: a call in the beam branch does not stop before max_length steps
\* are done: it does not raise, after s steps each list of the trace holds
\* the records of steps 0..s-1 in order behind its first entry, and the
\* call returns after step max_length - 1 with max_length records.
C17_BeamLoopRunsMaxLength ==
  (Dispatched /\ CallMode = "beam") =>
    /\ pc # "raised"
    /\ di <= max_length
    /\ HoldsSteps(beamStatesLM.probVec, di)
    /\ HoldsSteps(beamStatesLM.hiddens, di)
    /\ HoldsSteps(beamStatesLM.cells, di)
    /\ pc \in {"return", "done"} => di = max_length
    /\ pc = "done" => ret_dict.beamStates = beamStatesLM

\* C18: no step of a forward call, and no sequence of calls, changes a
\* field of the instance that __init__ set.
C18_InstanceUnchanged ==
  [][self' = self]_vars

\* C19: in every state of a call and in what it returns, decoder_outputs
\* and sequence_symbols have the same number of entries, and so has the
\* attention list on an instance with attention; in the beam branch the
\* three are empty and every entry of lengths is max_length.
C19_ListSizesEqual ==
  /\ Len(decoder_outputs) = Len(sequence_symbols)
  /\ self.use_attention => Len(attention_score) = Len(decoder_outputs)
  /\ ret_dict.returned => /\ ret_dict.sequence = sequence_symbols
                          /\ Len(ret_dict.sequence) = Len(decoder_outputs)
  /\ (Dispatched /\ CallMode = "beam") =>
       /\ decoder_outputs = << >>
       /\ sequence_symbols = << >>
       /\ attention_score = << >>
       /\ \A b \in DOMAIN lengths : lengths[b] = max_length
       /\ ret_dict.returned =>
            /\ ret_dict.sequence = << >>
            /\ \A b \in DOMAIN ret_dict.length :
                 ret_dict.length[b] = max_length

\* C19 witness: a returned call of two steps on an instance with attention.
C19_Witness ==
  /\ pc = "done"
  /\ self.use_attention
  /\ Len(decoder_outputs) = 2
  /\ Len(attention_score) = 2
  /\ Len(ret_dict.sequence) = 2

\* C20: the hidden trace and the cell trace of a call both start with a
\* clone of the caller's beamStates['cells'][0], in every state of the call
\* and in what it returns; beam step 0 therefore takes both halves of the
\* state it gathers from that clone; and the call leaves the caller's
\* bundle as it got it.
C20_TraceSeededFromCells ==
  [][(lengths' # << >> /\ pc' # "idle") =>
       /\ beamStatesLM'.hiddens[1] = SeedCells
       /\ beamStatesLM'.cells[1] = SeedCells
       /\ pc # "idle" => beamStates' = beamStates
       /\ pc' = "done" =>
            /\ ret_dict'.beamStates.hiddens[1] = SeedCells
            /\ ret_dict'.beamStates.cells[1] = SeedCells
       /\ (pc = "beam" /\ di = 0 /\ step_calls' > step_calls) =>
            /\ step_hidden'.h = "beamStates.cells[0]"
            /\ step_hidden'.c = "beamStates.cells[0]"]_vars

\* C20 witness: a beam call that gathered the state of step 0 from the
\* clone of the seeded cells and returned.
C20_Witness ==
  /\ pc = "done"
  /\ CallMode = "beam"
  /\ step_calls >= 1
  /\ max_length = 1
  /\ step_hidden.h = "beamStates.cells[0]"
  /\ step_hidden.c = "beamStates.cells[0]"
  /\ ret_dict.beamStates.hiddens[1] = SeedCells

====
